---- MODULE Spec2Model ----
(***************************************************************************)
(* RefFLEXITY-CLI (src/main.py): the streamed retrieval-and-generation     *)
(* pipeline.  pull_model decodes the /api/pull progress stream,            *)
(* stream_ollama decodes the /api/chat stream next to a spinner thread,    *)
(* process_query searches, fetches the pages and builds the Context.       *)
(*                                                                         *)
(* Text is a sequence of string tokens (the empty sequence is the empty    *)
(* string), so that concatenation, prefixes and truthiness are computed.   *)
(* stdout is the sequence `out` of the current operation's writes.         *)
(***************************************************************************)
EXTENDS Integers, Sequences, FiniteSets, TLC

VARIABLES
    pc,             \* position of the main thread
    op,             \* operation running or last run: none, pull, chat, query
    out,            \* what the current operation has written to stdout
    conn,           \* none | open | closed : the streamed HTTP connection
    requests,       \* POSTs sent to the model server by the current operation
    resp,           \* [status, body] the model server answers with
    pos,            \* index in resp.body of the next line iter_lines() yields
    model_name,     \* pull_model: its argument
    current_layer,  \* pull_model: local current_layer
    first_status,   \* pull_model: local first_status
    so_args,        \* stream_ollama: its arguments (query, context, model)
    so_calls,       \* stream_ollama calls made by the current process_query
    first_chunk,    \* stream_ollama: local first_chunk
    ci,             \* stream_ollama: index of the next character of content
    stop_event,     \* stream_ollama: the threading.Event shared with spinner
    sp,             \* spinner thread position: none | check | print | dead
    kbi,            \* KeyboardInterrupt was raised in this stream_ollama call
    so_exc,         \* exception caught by stream_ollama's except Exception
    leaked,         \* spinner threads of earlier calls that are still alive
    query,          \* process_query: its argument query
    model,          \* process_query: its argument model
    doc,            \* search_duckduckgo: the result containers of the page received
    results,        \* process_query: local results
    ri,             \* process_query: index i of the fetch loop
    context_parts,  \* process_query: local context_parts
    fetched         \* process_query: the fetch_page_text calls made, in order: href, text returned

ioVars    == <<out, conn, requests, resp, pos>>
pullVars  == <<model_name, current_layer, first_status>>
chatVars  == <<so_args, so_calls, first_chunk, ci, stop_event, sp, kbi, so_exc, leaked>>
queryVars == <<query, model, doc, results, ri, context_parts, fetched>>
vars      == <<pc, op, ioVars, pullVars, chatVars, queryVars>>

----------------------------------------------------------------------------
(* Bounds of the model *)
MaxPullLines == 3
MaxChatLines == 3
MaxDivs == 3
MaxLeaked == 1
MaxCapDivs == 2
MaxOver == 1

(* Program constants *)
MAX_RESULTS == 5
MAX_TEXT_PER_PAGE == 5000
DigestPrefixLen == 12
bar_length == 30
MiB == 1048576

----------------------------------------------------------------------------
(* Helpers *)
Min(a, b) == IF a < b THEN a ELSE b
Max(a, b) == IF a > b THEN a ELSE b

BoundedSeq(S, n) == UNION {[1..k -> S] : k \in 0..n}

RECURSIVE Flatten(_)
Flatten(ss) == IF ss = <<>> THEN <<>> ELSE Head(ss) \o Flatten(Tail(ss))

RECURSIVE SelectItems(_, _)
SelectItems(s, K) ==
    IF s = <<>> THEN <<>>
    ELSE IF Head(s).k \in K THEN <<Head(s)>> \o SelectItems(Tail(s), K)
         ELSE SelectItems(Tail(s), K)

(* One write to stdout: kind, text tokens, numbers *)
Item(k, t, n) == [k |-> k, t |-> t, n |-> n]
Blank == Item("blank", <<>>, <<>>)

NoResp == [status |-> 0, body |-> <<>>]
NoArgs == [query |-> <<>>, context |-> <<>>, model |-> <<>>]
NoLayer == [some |-> FALSE, v |-> <<>>]
Layer(ds) == [some |-> TRUE, v |-> ds]

(* variant: the response is left as it is *)
WithExitLeaves(c) == c

(* the with block of httpx.stream(...) is left: the response is closed *)
WithExit(c) == "closed"

Statuses == {200, 404, 500}
(* variant: only server errors are refused *)
IsBelow500(status) == status < 500

(* lines 72, 203: raise_for_status() *)
Is2xx(status) == status >= 200 /\ status < 300

----------------------------------------------------------------------------
(* /api/pull: the lines of the response body *)

(* A JSON number that int() accepts, or a value on which int() raises *)
Num(v) == [int |-> TRUE, v |-> v]
NotNum == [int |-> FALSE, v |-> 0]

Digest(c, last) == [i \in 1..(DigestPrefixLen + 1) |-> IF i <= DigestPrefixLen THEN c ELSE last]
DigestA  == Digest("a", "x")
DigestA2 == Digest("a", "y")    \* same first 12 characters as DigestA
DigestB  == Digest("b", "x")

PullObj(has, status, digest, total, completed, error) ==
    [kind |-> "obj", has |-> has, status |-> status, digest |-> digest,
     total |-> total, completed |-> completed, error |-> error]
PullRaw(kind) ==
    [kind |-> kind, has |-> {}, status |-> <<>>, digest |-> <<>>,
     total |-> NotNum, completed |-> NotNum, error |-> <<>>]

EvStatus(s) == PullObj({"status"}, s, <<>>, NotNum, NotNum, <<>>)
EvLayer(s, d, t, c) ==
    PullObj({"status", "digest", "total", "completed"}, s, d, Num(t), Num(c), <<>>)

ModelNotFound == <<"model not found">>

PullLines ==
    { PullRaw("empty"), PullRaw("bad"), PullRaw("nonobj"),
      EvStatus(<<"verifying">>),
      EvStatus(<<"writing manifest">>),
      EvStatus(<<"pulling ", "manifest">>),
      EvLayer(<<"pulling ", "a">>, DigestA, 100, 50),
      EvLayer(<<"pulling ", "a">>, DigestA2, 100, 100),
      EvLayer(<<"pulling ", "b">>, DigestB, 3 * MiB, 2 * MiB),
      EvLayer(<<"pulling ", "a">>, DigestA, 100, 150),
      EvLayer(<<"pulling ", "a">>, DigestA, 7, 0 - 3),
      PullObj({"digest", "total", "completed"}, <<>>, DigestB, Num(0), Num(0), <<>>),
      PullObj({"digest", "total"}, <<>>, DigestA, Num(100), NotNum, <<>>),
      PullObj({"digest", "total", "completed"}, <<>>, DigestA, NotNum, Num(5), <<>>),
      PullObj({"total", "completed"}, <<>>, <<>>, Num(100), Num(50), <<>>),
      PullObj({"error"}, <<>>, <<>>, NotNum, NotNum, ModelNotFound),
      PullObj({"error", "status", "digest", "total", "completed"},
              <<"verifying">>, DigestB, Num(100), Num(50), ModelNotFound) }

(* The stream of spec.md section 8 *)
ExampleDigest == Digest("c", "c")
ExamplePull ==
    << EvStatus(<<"verifying">>),
       PullObj({"digest", "total", "completed"}, <<>>, ExampleDigest, Num(100), Num(50), <<>>),
       PullObj({"digest", "total", "completed"}, <<>>, ExampleDigest, Num(100), Num(100), <<>>),
       EvStatus(<<"success">>) >>

PullBodies == BoundedSeq(PullLines, MaxPullLines) \cup {ExamplePull}

(* what the server may send along with a status that is not 2xx *)
RefusedPullBodies ==
    { <<>>,
      <<PullObj({"error"}, <<>>, <<>>, NotNum, NotNum, ModelNotFound)>>,
      <<EvStatus(<<"verifying">>), EvLayer(<<"pulling ", "a">>, DigestA, 100, 50)>> }

(* The bodies /api/pull answers with when main runs pulls and queries *)
MainPullBodies ==
    { <<>>, ExamplePull,
      <<PullRaw("bad"), PullObj({"error"}, <<>>, <<>>, NotNum, NotNum, ModelNotFound),
        EvStatus(<<"verifying">>)>>,
      <<EvLayer(<<"pulling ", "a">>, DigestA, 100, 50), PullRaw("nonobj")>> }

PullResponses(Bodies) ==
    {[status |-> 200, body |-> b] : b \in Bodies}
        \cup {[status |-> st, body |-> b] : st \in Statuses \ {200}, b \in RefusedPullBodies}

ModelNames == {<<>>, <<"llama3">>}

----------------------------------------------------------------------------
(* pull_model: the handling of one decoded event *)

StartsWithPulling(status) == Len(status) >= 1 /\ status[1] = "pulling "

(* variant: the whole digest is compared and shown *)
DigestWhole(digest) == digest

(* line 98: data["digest"][:12] *)
DigestShort(digest) == SubSeq(digest, 1, Min(DigestPrefixLen, Len(digest)))

(* f"{pct:.1f}" in tenths of a percent: round half to even *)
PctTenths(completed, total) ==
    LET n == 1000 * completed
        q == n \div total
        r == n % total
    IN  IF 2 * r > total THEN q + 1
        ELSE IF 2 * r < total THEN q
        ELSE IF q % 2 = 0 THEN q ELSE q + 1

(* variant: the quotient is taken before the scaling *)
FilledQuotientFirst(completed, total) == bar_length * (completed \div total)

(* line 111: int(bar_length * completed // total) *)
Filled(completed, total) == (bar_length * completed) \div total

(* "X" * filled + "." * (bar_length - filled): a negative count gives "" *)
Bar(filled) == <<Max(filled, 0), Max(bar_length - filled, 0)>>

ProgressLine(completed, total) ==
    Item("progress", <<>>,
         Bar(Filled(completed, total))
            \o <<PctTenths(completed, total), completed \div MiB, total \div MiB>>)

IsMilestone(data) ==
    /\ data.status # <<>>
    /\ ~StartsWithPulling(data.status)
    /\ "digest" \notin data.has

MilestoneWrites(data, first) == <<Blank, Item("status", data.status, <<>>)>>

LayerChanged(layer, ds) == layer # Layer(ds)

LayerWrites(layer, ds) ==
    IF LayerChanged(layer, ds) THEN <<Blank, Item("layer", ds, <<>>)>> ELSE <<>>

ProgressWrites(data) ==
    IF "total" \notin data.has THEN <<>>
    ELSE IF ~data.total.int THEN <<>>                       \* int() raised
    ELSE IF "completed" \in data.has /\ ~data.completed.int THEN <<>>
    ELSE LET total == data.total.v
             completed == IF "completed" \in data.has THEN data.completed.v ELSE 0
         IN  IF total > 0 THEN <<ProgressLine(completed, total)>> ELSE <<>>

(* variant: the error field is looked at only when there is no status *)
HasErrorNoStatus(data) == "error" \in data.has /\ "status" \notin data.has

(* line 80: "error" in data *)
HasError(data) == "error" \in data.has

(* The body of the for loop for one line: what is written, the new locals, *)
(* and how the iteration ends: next | return | raise                      *)
PullStep(line, layer, first) ==
    IF line.kind = "empty" \/ line.kind = "bad" THEN
        [w |-> <<>>, layer |-> layer, first |-> first, ctl |-> "next"]
    ELSE IF line.kind = "nonobj" THEN
        [w |-> <<>>, layer |-> layer, first |-> first, ctl |-> "raise"]
    ELSE IF HasError(line) THEN
        [w |-> <<Blank, Item("error", line.error, <<>>)>>,
         layer |-> layer, first |-> first, ctl |-> "return"]
    ELSE IF IsMilestone(line) THEN
        [w |-> MilestoneWrites(line, first), layer |-> layer, first |-> FALSE, ctl |-> "next"]
    ELSE IF "digest" \in line.has THEN
        [w |-> LayerWrites(layer, DigestShort(line.digest)) \o ProgressWrites(line),
         layer |-> Layer(DigestShort(line.digest)), first |-> first, ctl |-> "next"]
    ELSE
        [w |-> <<>>, layer |-> layer, first |-> first, ctl |-> "next"]

----------------------------------------------------------------------------
Init ==
    /\ pc = "ready"
    /\ op = "none"
    /\ out = <<>>
    /\ conn = "none"
    /\ requests = 0
    /\ resp = NoResp
    /\ pos = 1
    /\ model_name = <<>>
    /\ current_layer = NoLayer
    /\ first_status = TRUE
    /\ so_args = NoArgs
    /\ so_calls = 0
    /\ first_chunk = TRUE
    /\ ci = 1
    /\ stop_event = FALSE
    /\ sp = "none"
    /\ kbi = FALSE
    /\ so_exc = <<>>
    /\ leaked = 0
    /\ query = <<>>
    /\ model = <<>>
    /\ doc = <<>>
    /\ results = <<>>
    /\ ri = 1
    /\ context_parts = <<>>
    /\ fetched = <<>>

(* The locals of a function that has returned are gone when main makes   *)
(* its next call                                                         *)
NoPullFrame ==
    /\ model_name' = <<>>
    /\ current_layer' = NoLayer
    /\ first_status' = TRUE

NoChatFrame ==
    /\ so_args' = NoArgs
    /\ so_calls' = 0
    /\ first_chunk' = TRUE
    /\ ci' = 1
    /\ stop_event' = FALSE
    /\ sp' = "none"
    /\ kbi' = FALSE
    /\ so_exc' = <<>>
    /\ UNCHANGED leaked

NoQueryFrame ==
    /\ query' = <<>>
    /\ model' = <<>>
    /\ doc' = <<>>
    /\ results' = <<>>
    /\ ri' = 1
    /\ context_parts' = <<>>
    /\ fetched' = <<>>

----------------------------------------------------------------------------
(* pull_model *)

(* main asks for a name and calls pull_model; an empty name returns at once *)
PullCall ==
    /\ pc = "ready"
    /\ \E name \in ModelNames :
        /\ model_name' = name
        /\ IF name = <<>>
           THEN /\ out' = <<Item("no_name", <<>>, <<>>)>>
                /\ pc' = "ready"
           ELSE /\ out' = <<Blank, Item("pulling", name, <<>>)>>
                /\ pc' = "pull_request"
    /\ op' = "pull"
    /\ conn' = "none"
    /\ requests' = 0
    /\ resp' = NoResp
    /\ pos' = 1
    /\ current_layer' = NoLayer
    /\ first_status' = TRUE
    /\ NoChatFrame
    /\ NoQueryFrame

(* variant: the handler falls through to the success report *)
PullFailedFallsThrough(exc) ==
    <<Blank, Item("failed", model_name \o <<exc>>, <<>>),
      Blank, Item("success", model_name, <<>>)>>

(* lines 126-128: except Exception as e *)
PullFailed(exc) == <<Blank, Item("failed", model_name \o <<exc>>, <<>>)>>

(* httpx.stream(...) cannot connect: caught by except Exception *)
PullUnreachable ==
    /\ pc = "pull_request"
    /\ requests' = requests + 1
    /\ out' = out \o PullFailed("ConnectError")
    /\ pc' = "ready"
    /\ UNCHANGED <<op, conn, resp, pos, pullVars, chatVars, queryVars>>

PullStatusCheck(r) ==
    IF Is2xx(r.status) THEN [conn |-> "open", w |-> <<>>, pc |-> "pull_iter"]
    ELSE [conn |-> WithExit("open"), w |-> PullFailed("HTTPStatusError"), pc |-> "ready"]

(* the response arrives; raise_for_status() *)
PullRequest(Bodies) ==
    /\ pc = "pull_request"
    /\ \E r \in PullResponses(Bodies) :
        LET c == PullStatusCheck(r)
        IN  /\ resp' = r
            /\ conn' = c.conn
            /\ out' = out \o c.w
            /\ pc' = c.pc
    /\ requests' = requests + 1
    /\ pos' = 1
    /\ UNCHANGED <<op, pullVars, chatVars, queryVars>>

(* one iteration of for line in r.iter_lines() *)
PullLine ==
    /\ pc = "pull_iter"
    /\ pos <= Len(resp.body)
    /\ LET s == PullStep(resp.body[pos], current_layer, first_status)
       IN  /\ current_layer' = s.layer
           /\ first_status' = s.first
           /\ pos' = pos + 1
           /\ CASE s.ctl = "next" ->
                    /\ out' = out \o s.w
                    /\ pc' = "pull_iter"
                    /\ conn' = conn
                [] s.ctl = "return" ->
                    /\ out' = out \o s.w
                    /\ pc' = "ready"
                    /\ conn' = WithExit(conn)
                [] s.ctl = "raise" ->
                    /\ out' = out \o s.w \o PullFailed("TypeError")
                    /\ pc' = "ready"
                    /\ conn' = WithExit(conn)
    /\ UNCHANGED <<op, requests, resp, model_name, chatVars, queryVars>>

(* the body is exhausted: the with block exits, success is reported *)
PullEnd ==
    /\ pc = "pull_iter"
    /\ pos > Len(resp.body)
    /\ conn' = WithExit(conn)
    /\ out' = out \o <<Blank, Item("success", model_name, <<>>)>>
    /\ pc' = "ready"
    /\ UNCHANGED <<op, requests, resp, pos, pullVars, chatVars, queryVars>>

(* iter_lines() raises (the transfer breaks): caught by except Exception *)
PullReadError ==
    /\ pc = "pull_iter"
    /\ conn' = WithExit(conn)
    /\ out' = out \o PullFailed("ReadError")
    /\ pc' = "ready"
    /\ UNCHANGED <<op, requests, resp, pos, pullVars, chatVars, queryVars>>

(* Ctrl+C during the pull: except Exception does not catch it, the with   *)
(* block closes the connection and the interpreter exits                  *)
PullInterrupt ==
    /\ pc \in {"pull_request", "pull_iter"}
    /\ conn' = IF conn = "open" THEN WithExit(conn) ELSE conn
    /\ pc' = "exited"
    /\ UNCHANGED <<op, out, requests, resp, pos, pullVars, chatVars, queryVars>>

NextPull ==
    \/ PullCall
    \/ PullUnreachable
    \/ PullRequest(PullBodies)
    \/ PullLine
    \/ PullEnd
    \/ PullReadError
    \/ PullInterrupt

SpecPull == Init /\ [][NextPull]_vars

----------------------------------------------------------------------------
(* /api/chat: the lines of the response body *)

ChatObj(has, msgobj, content, done) ==
    [kind |-> "obj", has |-> has, msgobj |-> msgobj, content |-> content, done |-> done]
ChatRaw(kind) ==
    [kind |-> kind, has |-> {}, msgobj |-> FALSE, content |-> <<>>, done |-> FALSE]

EvContent(content) == ChatObj({"message", "done"}, TRUE, content, FALSE)

ChatLines ==
    { ChatRaw("empty"), ChatRaw("bad"), ChatRaw("nonobj"),
      EvContent(<<"h", "i">>),
      EvContent(<<"x">>),
      EvContent(<<>>),
      ChatObj({"message", "done"}, TRUE, <<>>, TRUE),      \* the closing done=true event
      ChatObj({"done"}, FALSE, <<>>, TRUE),                \* no message field
      ChatObj({"message"}, FALSE, <<>>, FALSE),            \* message is not an object
      ChatObj({"error"}, FALSE, <<>>, FALSE) }             \* {"error": ...}

ChatBodies == BoundedSeq(ChatLines, MaxChatLines)

(* The bodies process_query's stream_ollama call is answered with *)
QueryChatBodies ==
    { <<>>, <<EvContent(<<"h", "i">>)>>, <<ChatRaw("bad"), EvContent(<<"x">>)>>,
      <<ChatRaw("nonobj")>> }

RefusedChatBodies == {<<>>, <<EvContent(<<"h", "i">>)>>}

ChatResponses(Bodies) ==
    {[status |-> 200, body |-> b] : b \in Bodies}
        \cup {[status |-> st, body |-> b] : st \in Statuses \ {200}, b \in RefusedChatBodies}

Queries == {<<>>, <<"q1">>}
Models == {<<"m1">>}

(* variant: a line that fails to parse raises instead of being skipped *)
ChatStepStrict(line) ==
    IF line.kind = "empty" THEN [ctl |-> "next", content |-> <<>>]
    ELSE IF line.kind = "bad" \/ line.kind = "nonobj" THEN [ctl |-> "raise", content |-> <<>>]
    ELSE IF "message" \notin line.has THEN [ctl |-> "next", content |-> <<>>]
    ELSE IF ~line.msgobj THEN [ctl |-> "raise", content |-> <<>>]
    ELSE IF line.content = <<>> THEN [ctl |-> "next", content |-> <<>>]
    ELSE [ctl |-> "emit", content |-> line.content]

(* data.get("message", {}).get("content", ""): the text, or AttributeError *)
ChatStep(line) ==
    IF line.kind = "empty" \/ line.kind = "bad" THEN [ctl |-> "next", content |-> <<>>]
    ELSE IF line.kind = "nonobj" THEN [ctl |-> "raise", content |-> <<>>]
    ELSE IF "message" \notin line.has THEN [ctl |-> "next", content |-> <<>>]
    ELSE IF ~line.msgobj THEN [ctl |-> "raise", content |-> <<>>]
    ELSE IF line.content = <<>> THEN [ctl |-> "next", content |-> <<>>]
    ELSE [ctl |-> "emit", content |-> line.content]

(* "\rThinking... c": the spinner rewrites the line it is on *)
SpinWrite(o) ==
    IF o # <<>> /\ o[Len(o)].k = "spin" THEN o ELSE Append(o, Item("spin", <<>>, <<>>))

----------------------------------------------------------------------------
(* stream_ollama *)

(* lines 176-200: the prompt, the Thinking line, the spinner thread *)
SOEnter(prev, q, c, m, calls) ==
    /\ leaked < MaxLeaked
    /\ so_args' = [query |-> q, context |-> c, model |-> m]
    /\ so_calls' = calls
    /\ out' = Append(prev, Item("thinking", <<>>, <<>>))
    /\ stop_event' = FALSE
    /\ sp' = "check"
    /\ first_chunk' = TRUE
    /\ ci' = 1
    /\ kbi' = FALSE
    /\ so_exc' = <<>>
    /\ conn' = "none"
    /\ requests' = 0
    /\ resp' = NoResp
    /\ pos' = 1
    /\ pc' = "so_request"
    /\ UNCHANGED leaked

(* stream_ollama called on its own *)
ChatCall ==
    /\ pc = "ready"
    /\ \E q \in Queries \ {<<>>}, m \in Models : SOEnter(<<>>, q, <<>>, m, 1)
    /\ op' = "chat"
    /\ NoPullFrame
    /\ NoQueryFrame

(* httpx.stream(...) cannot connect *)
SOUnreachable ==
    /\ pc = "so_request"
    /\ requests' = requests + 1
    /\ so_exc' = <<"ConnectError">>
    /\ pc' = "so_exc"
    /\ UNCHANGED <<op, out, conn, resp, pos, pullVars, queryVars,
                   so_args, so_calls, first_chunk, ci, stop_event, sp, kbi, leaked>>

SOStatusCheck(r) ==
    IF Is2xx(r.status) THEN [conn |-> "open", exc |-> <<>>, pc |-> "so_iter"]
    ELSE [conn |-> WithExit("open"), exc |-> <<"HTTPStatusError">>, pc |-> "so_exc"]

(* the response arrives; raise_for_status() *)
SORequest(Bodies) ==
    /\ pc = "so_request"
    /\ \E r \in ChatResponses(Bodies) :
        LET c == SOStatusCheck(r)
        IN  /\ resp' = r
            /\ conn' = c.conn
            /\ so_exc' = c.exc
            /\ pc' = c.pc
    /\ requests' = requests + 1
    /\ pos' = 1
    /\ UNCHANGED <<op, out, pullVars, queryVars,
                   so_args, so_calls, first_chunk, ci, stop_event, sp, kbi, leaked>>

(* one iteration of for line in r.iter_lines(), up to the first character *)
SOLine ==
    /\ pc = "so_iter"
    /\ pos <= Len(resp.body)
    /\ LET s == ChatStep(resp.body[pos])
       IN  CASE s.ctl = "next" ->
                    /\ pos' = pos + 1
                    /\ UNCHANGED <<pc, conn, so_exc, stop_event, ci>>
             [] s.ctl = "raise" ->
                    /\ conn' = WithExit(conn)
                    /\ so_exc' = <<"AttributeError">>
                    /\ pc' = "so_exc"
                    /\ UNCHANGED <<pos, stop_event, ci>>
             [] s.ctl = "emit" ->
                    /\ ci' = 1
                    /\ IF first_chunk
                       THEN stop_event' = TRUE /\ pc' = "so_join"
                       ELSE stop_event' = stop_event /\ pc' = "so_chars"
                    /\ UNCHANGED <<pos, conn, so_exc>>
    /\ UNCHANGED <<op, out, requests, resp, pullVars, queryVars,
                   so_args, so_calls, first_chunk, sp, kbi, leaked>>

(* variant: the header is written without waiting for the spinner *)
SOJoinNoWait ==
    /\ pc = "so_join"
    /\ out' = out \o <<Blank, Blank, Item("header", <<>>, <<>>)>>
    /\ first_chunk' = FALSE
    /\ pc' = "so_chars"
    /\ UNCHANGED <<op, conn, requests, resp, pos, pullVars, queryVars,
                   so_args, so_calls, ci, stop_event, sp, kbi, so_exc, leaked>>

(* lines 215-219: the spinner is joined, then the response header is written *)
SOJoin ==
    /\ pc = "so_join"
    /\ sp = "dead"
    /\ out' = out \o <<Blank, Blank, Item("header", <<>>, <<>>)>>
    /\ first_chunk' = FALSE
    /\ pc' = "so_chars"
    /\ UNCHANGED <<op, conn, requests, resp, pos, pullVars, queryVars,
                   so_args, so_calls, ci, stop_event, sp, kbi, so_exc, leaked>>

(* lines 220-222: one character of the fragment *)
SOChar ==
    /\ pc = "so_chars"
    /\ LET content == ChatStep(resp.body[pos]).content
       IN  /\ out' = Append(out, Item("char", <<content[ci]>>, <<>>))
           /\ IF ci < Len(content)
              THEN ci' = ci + 1 /\ pos' = pos /\ pc' = "so_chars"
              ELSE ci' = 1 /\ pos' = pos + 1 /\ pc' = "so_iter"
    /\ UNCHANGED <<op, conn, requests, resp, pullVars, queryVars,
                   so_args, so_calls, first_chunk, stop_event, sp, kbi, so_exc, leaked>>

(* a spinner thread that is still running when stream_ollama returns *)
Orphans(spinner) == IF spinner \in {"check", "print"} THEN 1 ELSE 0

(* variant: a body that ends without a done=true event is reported as an error *)
SOEndNeedsDone ==
    /\ pc = "so_iter"
    /\ pos > Len(resp.body)
    /\ conn' = WithExit(conn)
    /\ leaked' = leaked + Orphans(sp)
    /\ sp' = IF Orphans(sp) = 1 THEN "none" ELSE sp
    /\ out' = IF \E i \in 1..Len(resp.body) : resp.body[i].done
              THEN out
              ELSE out \o <<Blank, Item("ollama_error", <<"Incomplete">>, <<>>)>>
    /\ pc' = "ready"
    /\ UNCHANGED <<op, requests, resp, pos, pullVars, queryVars,
                   so_args, so_calls, first_chunk, ci, stop_event, kbi, so_exc>>

(* the body is exhausted: the with block exits and stream_ollama returns *)
SOEnd ==
    /\ pc = "so_iter"
    /\ pos > Len(resp.body)
    /\ conn' = WithExit(conn)
    /\ leaked' = leaked + Orphans(sp)
    /\ sp' = IF Orphans(sp) = 1 THEN "none" ELSE sp
    /\ pc' = "ready"
    /\ UNCHANGED <<op, out, requests, resp, pos, pullVars, queryVars,
                   so_args, so_calls, first_chunk, ci, stop_event, kbi, so_exc>>

(* iter_lines() raises (timeout, the transfer breaks) *)
SOReadError ==
    /\ pc = "so_iter"
    /\ conn' = WithExit(conn)
    /\ so_exc' = <<"ReadError">>
    /\ pc' = "so_exc"
    /\ UNCHANGED <<op, out, requests, resp, pos, pullVars, queryVars,
                   so_args, so_calls, first_chunk, ci, stop_event, sp, kbi, leaked>>

(* except Exception, lines 233-234: stop_event.set() *)
SOExcSet ==
    /\ pc = "so_exc"
    /\ stop_event' = TRUE
    /\ pc' = "so_exc_join"
    /\ UNCHANGED <<op, ioVars, pullVars, queryVars,
                   so_args, so_calls, first_chunk, ci, sp, kbi, so_exc, leaked>>

(* lines 234-236: the spinner is joined, the error is reported *)
SOExcReport ==
    /\ pc = "so_exc_join"
    /\ sp = "dead"
    /\ out' = out \o <<Blank, Item("ollama_error", so_exc, <<>>)>>
    /\ pc' = "ready"
    /\ UNCHANGED <<op, conn, requests, resp, pos, pullVars, chatVars, queryVars>>

(* variant: the interrupt is absorbed inside the loop, as a bare except would *)
SOInterruptAbsorbed ==
    /\ pc \in {"so_request", "so_iter", "so_join", "so_chars"}
    /\ ~kbi
    /\ kbi' = TRUE
    /\ UNCHANGED <<pc, op, ioVars, pullVars, queryVars,
                   so_args, so_calls, first_chunk, ci, stop_event, sp, so_exc, leaked>>

(* Ctrl+C inside the try block: the with block closes the connection *)
SOInterrupt ==
    /\ pc \in {"so_request", "so_iter", "so_join", "so_chars"}
    /\ conn' = IF conn = "open" THEN WithExit(conn) ELSE conn
    /\ kbi' = TRUE
    /\ pc' = "so_kbi"
    /\ UNCHANGED <<op, out, requests, resp, pos, pullVars, queryVars,
                   so_args, so_calls, first_chunk, ci, stop_event, sp, so_exc, leaked>>

(* except KeyboardInterrupt, line 227: stop_event.set() *)
SOKbiSet ==
    /\ pc = "so_kbi"
    /\ stop_event' = TRUE
    /\ pc' = "so_kbi_join"
    /\ UNCHANGED <<op, ioVars, pullVars, queryVars,
                   so_args, so_calls, first_chunk, ci, sp, kbi, so_exc, leaked>>

(* lines 228-231: the spinner is joined, the stop is reported *)
SOKbiReport ==
    /\ pc = "so_kbi_join"
    /\ sp = "dead"
    /\ out' = out \o <<Blank, Item("stopped", <<>>, <<>>), Blank>>
    /\ pc' = "ready"
    /\ UNCHANGED <<op, conn, requests, resp, pos, pullVars, chatVars, queryVars>>

(* variant: the spinner does not look at the flag *)
SpinCheckBlind ==
    /\ sp = "check"
    /\ sp' = "print"
    /\ UNCHANGED <<pc, op, ioVars, pullVars, queryVars,
                   so_args, so_calls, first_chunk, ci, stop_event, kbi, so_exc, leaked>>

(* spinner: if stop_event.is_set(): break *)
SpinCheck ==
    /\ sp = "check"
    /\ sp' = IF stop_event THEN "dead" ELSE "print"
    /\ UNCHANGED <<pc, op, ioVars, pullVars, queryVars,
                   so_args, so_calls, first_chunk, ci, stop_event, kbi, so_exc, leaked>>

(* spinner: print(...); time.sleep(0.1) *)
SpinPrint ==
    /\ sp = "print"
    /\ out' = SpinWrite(out)
    /\ sp' = "check"
    /\ UNCHANGED <<pc, op, conn, requests, resp, pos, pullVars, queryVars,
                   so_args, so_calls, first_chunk, ci, stop_event, kbi, so_exc, leaked>>

NextChat ==
    \/ ChatCall
    \/ SOUnreachable
    \/ SORequest(ChatBodies)
    \/ SOLine
    \/ SOJoin
    \/ SOChar
    \/ SOEnd
    \/ SOReadError
    \/ SOExcSet
    \/ SOExcReport
    \/ SOInterrupt
    \/ SOKbiSet
    \/ SOKbiReport
    \/ SpinCheck
    \/ SpinPrint

SpecChat == Init /\ [][NextChat]_vars

(* stream_ollama under fair scheduling: the spinner thread and the main
   thread each take their next step when they can; nothing is assumed of
   the server and of the user *)
NextLive ==
    \/ ChatCall
    \/ SOUnreachable
    \/ SORequest(QueryChatBodies)
    \/ SOLine
    \/ SOJoin
    \/ SOChar
    \/ SOEnd
    \/ SOReadError
    \/ SOExcSet
    \/ SOExcReport
    \/ SOInterrupt
    \/ SOKbiSet
    \/ SOKbiReport
    \/ SpinCheck
    \/ SpinPrint

MainSteps ==
    SOLine \/ SOJoin \/ SOChar \/ SOEnd \/ SOExcSet \/ SOExcReport \/ SOKbiSet \/ SOKbiReport

SpecLive ==
    /\ Init /\ [][NextLive]_vars
    /\ WF_vars(SpinCheck)
    /\ WF_vars(SpinPrint)
    /\ WF_vars(MainSteps)

----------------------------------------------------------------------------
(* search_duckduckgo, fetch_page_text, extract_main_text *)

(* a div.result of the search page: with its a.result__a or without *)
Div(title, href) == [a |-> TRUE, title |-> <<title>>, href |-> <<href>>]
NoAnchor == [a |-> FALSE, title |-> <<>>, href |-> <<>>]

Divs == {NoAnchor, Div("t1", "u1"), Div("t2", "u2")}

(* a page with more result containers than MAX_RESULTS *)
LongDoc ==
    << Div("t1", "u1"), NoAnchor, Div("t3", "u3"), Div("t4", "u4"),
       Div("t5", "u5"), Div("t6", "u6"), Div("t7", "u7") >>

(* a page with six containers that all hold a result *)
FullDoc ==
    << Div("t1", "u1"), Div("t2", "u2"), Div("t3", "u3"),
       Div("t4", "u4"), Div("t5", "u5"), Div("t6", "u6") >>

Docs == BoundedSeq(Divs, MaxDivs) \cup {LongDoc, FullDoc}

(* the search pages whose result pages are as long as the cap *)
CapDocs == BoundedSeq(Divs, MaxCapDivs)

RECURSIVE Anchored(_)
Anchored(divs) ==
    IF divs = <<>> THEN <<>>
    ELSE IF Head(divs).a
         THEN <<[title |-> Head(divs).title, href |-> Head(divs).href]>> \o Anchored(Tail(divs))
         ELSE Anchored(Tail(divs))

(* variant: every container of the page is looked at *)
ParseResultsAll(d) == Anchored(d)

(* lines 136-148: the first MAX_RESULTS containers, those without anchor skipped *)
ParseResults(d) == Anchored(SubSeq(d, 1, Min(MAX_RESULTS, Len(d))))

(* the cleaned text of a page, before the cap *)
PageTexts == {<<>>, <<"x">>}

(* cleaned texts as long as the cap, one character shorter, and longer;
   each length has its own character *)
Text(c, n) == [i \in 1..n |-> c]
CapTexts ==
    {<<>>, Text("a", MAX_TEXT_PER_PAGE - 1), Text("b", MAX_TEXT_PER_PAGE)}
        \cup {Text("c", MAX_TEXT_PER_PAGE + k) : k \in 1..MaxOver}

(* variant: the cleaned text is returned whole *)
ExtractMainTextWhole(cleaned) == cleaned

(* line 165: cleaned[:MAX_TEXT_PER_PAGE] *)
ExtractMainText(cleaned) == SubSeq(cleaned, 1, Min(MAX_TEXT_PER_PAGE, Len(cleaned)))

(* fetch_page_text: the extracted text, or "" on any exception *)
FetchOutcomes == {[ok |-> FALSE, cleaned |-> <<>>]} \cup {[ok |-> TRUE, cleaned |-> t] : t \in PageTexts}
CapFetchOutcomes == {[ok |-> FALSE, cleaned |-> <<>>]} \cup {[ok |-> TRUE, cleaned |-> t] : t \in CapTexts}
FetchPageText(o) == IF o.ok THEN ExtractMainText(o.cleaned) ELSE <<>>

(* line 261: f"Source {i}: {title}\n{href}\n\n{text}\n\n" *)
Excerpt(i, r, text) ==
    <<"Source ", ToString(i), ": ">> \o r.title \o <<"\n">> \o r.href \o <<"\n\n">>
        \o text \o <<"\n\n">>

(* lines 250-252 *)
RECURSIVE SourceList(_, _)
SourceList(rs, i) ==
    IF rs = <<>> THEN <<>>
    ELSE <<Item("source", Head(rs).title, <<i>>), Item("href", Head(rs).href, <<>>)>>
            \o SourceList(Tail(rs), i + 1)

(* lines 244-255 *)
ResultWrites(rs) ==
    IF rs = <<>> THEN <<Item("no_results", <<>>, <<>>)>>
    ELSE <<Blank, Item("sources", <<>>, <<>>)>> \o SourceList(rs, 1)
            \o <<Blank, Item("reading", <<>>, <<>>)>>

----------------------------------------------------------------------------
(* process_query *)

(* main reads a query and calls process_query; an empty query returns at once *)
QueryCall ==
    /\ pc = "ready"
    /\ \E q \in Queries, m \in Models :
        /\ query' = q
        /\ model' = m
        /\ pc' = IF q = <<>> THEN "ready" ELSE "pq_search"
    /\ op' = "query"
    /\ out' = <<>>
    /\ so_args' = NoArgs
    /\ so_calls' = 0
    /\ conn' = "none"
    /\ requests' = 0
    /\ resp' = NoResp
    /\ pos' = 1
    /\ doc' = <<>>
    /\ results' = <<>>
    /\ ri' = 1
    /\ context_parts' = <<>>
    /\ fetched' = <<>>
    /\ NoPullFrame
    /\ first_chunk' = TRUE
    /\ ci' = 1
    /\ stop_event' = FALSE
    /\ sp' = "none"
    /\ kbi' = FALSE
    /\ so_exc' = <<>>
    /\ UNCHANGED leaked

(* search_duckduckgo raises: "Search error" is written, [] is returned *)
PQSearchFails ==
    /\ pc = "pq_search"
    /\ doc' = <<>>
    /\ results' = <<>>
    /\ out' = out \o <<Item("search_error", <<>>, <<>>)>> \o ResultWrites(<<>>)
    /\ ri' = 1
    /\ pc' = "pq_fetch"
    /\ UNCHANGED <<op, conn, requests, resp, pos, pullVars, chatVars, query, model, context_parts, fetched>>

(* search_duckduckgo parses the page; lines 244-257 *)
PQSearch(Pages) ==
    /\ pc = "pq_search"
    /\ \E d \in Pages :
        /\ doc' = d
        /\ results' = ParseResults(d)
        /\ out' = out \o ResultWrites(ParseResults(d))
    /\ ri' = 1
    /\ pc' = "pq_fetch"
    /\ UNCHANGED <<op, conn, requests, resp, pos, pullVars, chatVars, query, model, context_parts, fetched>>

(* variant: pages are numbered by their place among the kept excerpts *)
SourceNoDense(i, parts) == Len(parts) + 1

(* the source number given to the page at index i of results *)
SourceNo(i, parts) == i

(* lines 258-261: one iteration of the fetch loop *)
PQFetch(Outcomes) ==
    /\ pc = "pq_fetch"
    /\ ri <= Len(results)
    /\ \E o \in Outcomes :
        LET text == FetchPageText(o)
        IN  /\ context_parts' =
                    IF text # <<>>
                    THEN Append(context_parts, Excerpt(SourceNo(ri, context_parts), results[ri], text))
                    ELSE context_parts
            /\ fetched' = Append(fetched, [href |-> results[ri].href, text |-> text])
    /\ ri' = ri + 1
    /\ UNCHANGED <<pc, op, ioVars, pullVars, chatVars, query, model, doc, results>>

(* line 263: "".join(context_parts) *)
Context(parts) == Flatten(parts)

(* variant: process_query returns when the search gave nothing *)
PQStreamUnlessEmpty ==
    /\ pc = "pq_fetch"
    /\ ri > Len(results)
    /\ IF results = <<>>
       THEN pc' = "ready" /\ UNCHANGED <<ioVars, chatVars>>
       ELSE SOEnter(out, query, Context(context_parts), model, so_calls + 1)
    /\ UNCHANGED <<op, pullVars, queryVars>>

(* lines 263-265: the Context is joined and stream_ollama is called *)
PQStream ==
    /\ pc = "pq_fetch"
    /\ ri > Len(results)
    /\ SOEnter(out, query, Context(context_parts), model, so_calls + 1)
    /\ UNCHANGED <<op, pullVars, queryVars>>

NextQuery ==
    \/ QueryCall
    \/ PQSearchFails
    \/ PQSearch(Docs)
    \/ PQFetch(FetchOutcomes)
    \/ PQStream
    \/ SOUnreachable
    \/ SORequest(QueryChatBodies)
    \/ SOLine
    \/ SOJoin
    \/ SOChar
    \/ SOEnd
    \/ SOReadError
    \/ SOExcSet
    \/ SOExcReport
    \/ SOInterrupt
    \/ SOKbiSet
    \/ SOKbiReport
    \/ SpinCheck
    \/ SpinPrint

SpecQuery == Init /\ [][NextQuery]_vars

(* process_query over pages whose text is as long as the cap; the model
   server is down, stream_ollama reports it *)
NextCap ==
    \/ QueryCall
    \/ PQSearchFails
    \/ PQSearch(CapDocs)
    \/ PQFetch(CapFetchOutcomes)
    \/ PQStream
    \/ SOUnreachable
    \/ SOExcSet
    \/ SOExcReport
    \/ SpinCheck
    \/ SpinPrint

SpecCap == Init /\ [][NextCap]_vars

(* the program: main calls pull_model or process_query *)
Next ==
    \/ PullCall
    \/ PullUnreachable
    \/ PullRequest(MainPullBodies)
    \/ PullLine
    \/ PullEnd
    \/ PullReadError
    \/ PullInterrupt
    \/ NextQuery

Spec == Init /\ [][Next]_vars

----------------------------------------------------------------------------
(* Properties *)

Kinds(o) == [i \in 1..Len(o) |-> o[i].k]
Count(o, K) == Len(SelectItems(o, K))

RECURSIVE TextOf(_)
TextOf(items) == IF items = <<>> THEN <<>> ELSE Head(items).t \o TextOf(Tail(items))

(* the characters of the answer written so far *)
CharsOf(o) == TextOf(SelectItems(o, {"char"}))

IsPrefix(a, b) == Len(a) <= Len(b) /\ a = SubSeq(b, 1, Len(a))

(* C1: from the step in which KeyboardInterrupt is raised in stream_ollama
   on, no further character of the answer is written, and the connection to
   /api/chat is not open from then on, hence closed before stream_ollama
   returns. *)
C1_CancelStopsOutput ==
    /\ [][kbi' => CharsOf(out') = CharsOf(out)]_vars
    /\ [](kbi => conn # "open")

(* the interrupt arrived in the middle of the fragment "hi", after "h" *)
C1_Witness ==
    /\ op = "chat" /\ pc = "ready" /\ kbi
    /\ resp.body = <<EvContent(<<"h", "i">>)>>
    /\ CharsOf(out) = <<"h">>
    /\ conn = "closed"
    /\ out[Len(out) - 1].k = "stopped"

(* C2: for a body of empty lines, unparseable lines and well-formed chat
   events, the characters written are at every moment a prefix of the
   contents of the well-formed events in the order sent, and when the body
   has been read to its end they are exactly those contents, no line having
   raised. *)
WellFormedChat(line) == line.kind = "obj" /\ "message" \in line.has /\ line.msgobj
C2_Body(body) ==
    \A i \in 1..Len(body) : body[i].kind \in {"empty", "bad"} \/ WellFormedChat(body[i])
RECURSIVE C2_Expected(_)
C2_Expected(body) ==
    IF body = <<>> THEN <<>>
    ELSE (IF WellFormedChat(Head(body)) THEN Head(body).content ELSE <<>>)
            \o C2_Expected(Tail(body))
C2_FragmentsInOrder ==
    (op = "chat" /\ requests = 1 /\ Is2xx(resp.status) /\ C2_Body(resp.body)) =>
        /\ IsPrefix(CharsOf(out), C2_Expected(resp.body))
        /\ so_exc \in {<<>>, <<"ReadError">>}
        /\ (pc = "ready" /\ ~kbi /\ so_exc = <<>>) => CharsOf(out) = C2_Expected(resp.body)

(* the stream '{bad', {"message":{"content":"hi"}}, '' has been read to its end *)
C2_Witness ==
    /\ op = "chat" /\ pc = "ready" /\ ~kbi /\ so_exc = <<>>
    /\ resp.status = 200
    /\ resp.body = <<ChatRaw("bad"), EvContent(<<"h", "i">>), ChatRaw("empty")>>
    /\ CharsOf(out) = <<"h", "i">>

(* C3: when pull_model reads the first event with an error field it writes
   the server's message and nothing else for that event, returns with the
   connection closed, reads no later line and reports no success. *)
IsErrorEvent(line) == line.kind = "obj" /\ "error" \in line.has
C3_FirstError(body) ==
    IF \E i \in 1..Len(body) : IsErrorEvent(body[i])
    THEN CHOOSE i \in 1..Len(body) :
            IsErrorEvent(body[i]) /\ \A j \in 1..(i - 1) : ~IsErrorEvent(body[j])
    ELSE 0
C3_ErrorStep ==
    (pc = "pull_iter" /\ pos <= Len(resp.body) /\ pos' = pos + 1 /\ IsErrorEvent(resp.body[pos])) =>
        /\ out' = out \o <<Blank, Item("error", resp.body[pos].error, <<>>)>>
        /\ pc' = "ready"
        /\ conn' = "closed"
C3_ErrorTerminates ==
    /\ [][C3_ErrorStep]_vars
    /\ [](  (op = "pull" /\ requests = 1 /\ Is2xx(resp.status)
                /\ C3_FirstError(resp.body) # 0 /\ pos > C3_FirstError(resp.body)) =>
            /\ pc = "ready"
            /\ pos = C3_FirstError(resp.body) + 1
            /\ out[Len(out)] = Item("error", resp.body[pos - 1].error, <<>>)
            /\ Count(out, {"error"}) = 1
            /\ Count(out, {"success", "failed"}) = 0 )

(* an error event that also carries status, digest, total and completed was
   read as second line, a third line follows it *)
C3_Witness ==
    /\ op = "pull" /\ pc = "ready"
    /\ Len(resp.body) = 3 /\ pos = 3
    /\ resp.body[2].has = {"error", "status", "digest", "total", "completed"}
    /\ resp.body[1].kind = "obj" /\ "digest" \in resp.body[1].has
    /\ out[Len(out)].k = "error"

(* C4: the layer-starts written by pull_model are exactly one per event
   with a digest whose first 12 characters differ from those of the
   previous event with a digest (or that is the first such event); an event
   repeating the digest writes none.  The stream of spec.md section 8 gives
   one layer-start, progress 50.0% then 100.0%, and success last. *)
C4_Prefix(d) == [i \in 1..(IF Len(d) < 12 THEN Len(d) ELSE 12) |-> d[i]]
C4_Bears(line) == line.kind = "obj" /\ "digest" \in line.has /\ "error" \notin line.has
RECURSIVE C4_Layers(_, _, _)
C4_Layers(body, seen, prev) ==
    IF body = <<>> THEN <<>>
    ELSE IF C4_Bears(Head(body))
         THEN (IF ~seen \/ C4_Prefix(Head(body).digest) # prev
               THEN <<C4_Prefix(Head(body).digest)>> ELSE <<>>)
                \o C4_Layers(Tail(body), TRUE, C4_Prefix(Head(body).digest))
         ELSE C4_Layers(Tail(body), seen, prev)
C4_LayerTexts(o) == [i \in 1..Count(o, {"layer"}) |-> SelectItems(o, {"layer"})[i].t]
C4_LayerStarts ==
    (op = "pull" /\ requests = 1 /\ Is2xx(resp.status)) =>
        /\ C4_LayerTexts(out) = C4_Layers(SubSeq(resp.body, 1, pos - 1), FALSE, <<>>)
        /\ (resp.body = ExamplePull /\ pc = "ready" /\ pos = 5 /\ Count(out, {"failed"}) = 0) =>
            /\ C4_LayerTexts(out) = << [i \in 1..12 |-> "c"] >>
            /\ SelectItems(out, {"progress"}) =
                    << Item("progress", <<>>, <<15, 15, 500, 0, 0>>),
                       Item("progress", <<>>, <<30, 0, 1000, 0, 0>>) >>
            /\ out[Len(out)] = Item("success", model_name, <<>>)

(* two events whose digests differ only after the 12th character were read:
   one layer-start *)
C4_Witness ==
    /\ op = "pull" /\ pc = "pull_iter" /\ pos = 3
    /\ resp.body[1].kind = "obj" /\ resp.body[1].digest = DigestA
    /\ resp.body[2].kind = "obj" /\ resp.body[2].digest = DigestA2
    /\ Count(out, {"layer"}) = 1
    /\ Count(out, {"progress"}) = 2

(* C5: when pull_model or stream_ollama is over (main is ready for the
   next operation, or the interpreter has exited), the connection of the
   stream is not open; a connection that answered has been closed, also
   while an except block is running. *)
C5_ConnectionClosed ==
    /\ (conn = "open") => pc \in {"pull_iter", "so_iter", "so_join", "so_chars"}
    /\ (pc \in {"ready", "exited"} /\ op \in {"pull", "chat", "query"} /\ resp # NoResp) =>
            conn = "closed"

(* pull_model returned early on an error event *)
C5_Witness ==
    /\ op = "pull" /\ pc = "ready" /\ conn = "closed"
    /\ pos = 3 /\ Len(resp.body) = 3
    /\ out[Len(out)].k = "error"

(* C6: when process_query has finished a non-empty query whose search gave
   no result (the search failed, or the page had none), stream_ollama was
   called exactly once, with that query and model and the empty Context;
   it is never called more than once. *)
C6_EmptySearchStillStreams ==
    /\ so_calls <= 1
    /\ (op = "query" /\ so_calls = 1) => so_args.query = query /\ so_args.model = model
    /\ (op = "query" /\ pc = "ready" /\ query # <<>> /\ results = <<>>) =>
            /\ so_calls = 1
            /\ so_args.context = <<>>

(* the search raised, and stream_ollama ran to its end afterwards *)
C6_Witness ==
    /\ op = "query" /\ pc = "ready" /\ query # <<>> /\ results = <<>>
    /\ Count(out, {"search_error"}) = 1
    /\ so_calls = 1 /\ requests = 1
    /\ CharsOf(out) = <<"h", "i">>

(* C7: fetch_page_text is called once per result, in result order, whatever
   the earlier pages returned; the Context handed to stream_ollama is the
   concatenation, in result order, of "Source i: title\nurl\n\ntext\n\n" for
   the pages i that returned non-empty text, i being the 1-based place in
   the result list; if no page returned text the Context is empty and
   stream_ollama is called all the same. *)
C7_Tag(i, r, text) ==
    <<"Source ", ToString(i), ": ">> \o r.title \o <<"\n">> \o r.href \o <<"\n\n">> \o text \o <<"\n\n">>
RECURSIVE C7_Context(_, _, _)
C7_Context(rs, fs, i) ==
    IF i > Len(rs) THEN <<>>
    ELSE (IF fs[i].text # <<>> THEN C7_Tag(i, rs[i], fs[i].text) ELSE <<>>)
            \o C7_Context(rs, fs, i + 1)
C7_FetchAllInOrder ==
    (op = "query") =>
        /\ Len(fetched) = ri - 1
        /\ Len(fetched) <= Len(results)
        /\ \A i \in 1..Len(fetched) : fetched[i].href = results[i].href
        /\ (so_calls = 1) =>
            /\ Len(fetched) = Len(results)
            /\ so_args.context = C7_Context(results, fetched, 1)
        /\ (pc = "ready" /\ query # <<>>) => so_calls = 1

(* the first page failed, the second gave text: the Context starts at Source 2 *)
C7_Witness ==
    /\ op = "query" /\ so_calls = 1
    /\ Len(results) = 3
    /\ fetched[1].text = <<>> /\ fetched[2].text # <<>> /\ fetched[3].text = <<>>
    /\ so_args.context[2] = "2"

(* every page failed: empty Context, stream_ollama called *)
C7_WitnessAllFail ==
    /\ op = "query" /\ so_calls = 1 /\ Len(results) = 2
    /\ \A i \in 1..2 : fetched[i].text = <<>>
    /\ so_args.context = <<>>

(* C8: when the model server cannot be reached or answers the chat or pull
   request with a status outside 2xx, no line of the body is read, nothing
   but one labeled error is written for the request, one request only is
   made, and the operation returns to main. *)
C8_Produced == {"char", "header", "status", "layer", "progress", "success", "error"}
C8_Labeled == {"failed", "ollama_error"}
C8_Refused(status) == status < 200 \/ status > 299
C8_StatusFailure ==
    (op \in {"pull", "query"} /\ requests >= 1 /\ (resp = NoResp \/ C8_Refused(resp.status))) =>
        /\ requests = 1
        /\ pos = 1
        /\ Count(out, C8_Produced) = 0
        /\ pc \in {"ready", "so_exc", "so_exc_join"}
        /\ Count(out, C8_Labeled) = (IF pc = "ready" THEN 1 ELSE 0)
        /\ (pc = "ready") =>
            \/ op = "pull" /\ out[Len(out)] =
                    Item("failed", model_name \o (IF resp = NoResp THEN <<"ConnectError">>
                                                  ELSE <<"HTTPStatusError">>), <<>>)
            \/ op = "query" /\ out[Len(out)] =
                    Item("ollama_error", (IF resp = NoResp THEN <<"ConnectError">>
                                          ELSE <<"HTTPStatusError">>), <<>>)

(* /api/pull answered 404 with a body that holds events *)
C8_Witness ==
    /\ op = "pull" /\ pc = "ready" /\ resp.status = 404
    /\ Len(resp.body) = 2 /\ resp.body[1] = EvStatus(<<"verifying">>)
    /\ "digest" \in resp.body[2].has
    /\ out[Len(out)].k = "failed"

(* /api/chat answered 500 with a body that holds a fragment *)
C8_WitnessChat ==
    /\ op = "query" /\ pc = "ready" /\ resp.status = 500
    /\ resp.body = <<EvContent(<<"h", "i">>)>>
    /\ out[Len(out)].k = "ollama_error"

(* C9: the milestone lines written by pull_model are the statuses of the
   events without digest, one line per change: an event whose status
   differs from the last surfaced milestone adds a line, an event that
   repeats it adds none.  (Stated for the statuses that pull_model treats
   as milestones at all: "pulling ..." statuses, which it never shows, are
   left aside.) *)
C9_Carries(line) ==
    line.kind = "obj" /\ "error" \notin line.has /\ "status" \in line.has
        /\ "digest" \notin line.has /\ line.status # <<>>
        /\ line.status[1] # "pulling "
RECURSIVE C9_Milestones(_, _, _)
C9_Milestones(body, seen, last) ==
    IF body = <<>> THEN <<>>
    ELSE IF C9_Carries(Head(body))
         THEN (IF ~seen \/ Head(body).status # last THEN <<Head(body).status>> ELSE <<>>)
                \o C9_Milestones(Tail(body), TRUE, Head(body).status)
         ELSE C9_Milestones(Tail(body), seen, last)
C9_StatusTexts(o) == [i \in 1..Count(o, {"status"}) |-> SelectItems(o, {"status"})[i].t]
C9_MilestoneOncePerChange ==
    (op = "pull" /\ requests = 1 /\ resp.status = 200) =>
        C9_StatusTexts(out) = C9_Milestones(SubSeq(resp.body, 1, pos - 1), FALSE, <<>>)

(* C10: as claimed: every event (without error field) in which total and
   completed are both present and total > 0 gets a progress report, with
   the percentage and, for 0 <= completed <= total, 30 segments of which
   floor(30*completed/total) are filled; an event without total, or with
   total <= 0, gets none. *)
C10_Abs(x) == IF x < 0 THEN 0 - x ELSE x
C10_Event(line) == line.kind = "obj" /\ "error" \notin line.has
C10_Reading == pc = "pull_iter" /\ pos <= Len(resp.body) /\ pos' = pos + 1
C10_Report(p, c, t) ==
    /\ p.k = "progress"
    /\ 2 * C10_Abs(1000 * c - p.n[3] * t) <= t
    /\ p.n[1] = (IF (30 * c) \div t < 0 THEN 0 ELSE (30 * c) \div t)
    /\ (0 <= c /\ c <= t) => p.n[1] + p.n[2] = 30
C10_Added == Count(out', {"progress"}) - Count(out, {"progress"})
C10_Produces(line) ==
    /\ "digest" \in line.has
    /\ "total" \in line.has /\ line.total.int /\ line.total.v > 0
    /\ "completed" \in line.has => line.completed.int
C10_Completed(line) == IF "completed" \in line.has THEN line.completed.v ELSE 0
C11_Terminal == {"success", "error", "failed"}
C11_Called == op = "pull" /\ model_name # <<>>
C11_Stops(line) == line.kind = "nonobj" \/ (line.kind = "obj" /\ "error" \in line.has)
C11_Answered == requests = 1 /\ resp.status \in 200..299
C12_ExcerptText(part) == SubSeq(part, 8, Len(part) - 1)
C12_TextWithinCap ==
    (op = "query") =>
        /\ \A i \in 1..Len(fetched) : Len(fetched[i].text) <= 5000
        /\ \A i \in 1..Len(context_parts) :
            /\ Len(C12_ExcerptText(context_parts[i])) <= 5000
            /\ \E j \in 1..Len(fetched) : C12_ExcerptText(context_parts[i]) = fetched[j].text
        /\ Len(so_args.context) <= Len(results) * (5000 + 8)

(* a page of 5001 characters and a page of 4999: the first excerpt holds
   5000 of the 5001, the second all 4999 *)
C12_Witness ==
    /\ op = "query" /\ so_calls = 1 /\ Len(fetched) = 2
    /\ fetched[1].text = [i \in 1..5000 |-> "c"]
    /\ fetched[2].text = [i \in 1..4999 |-> "a"]
    /\ Len(context_parts) = 2
    /\ Len(so_args.context) = 5000 + 4999 + 16

(* C13: the list returned by search_duckduckgo holds at most 5 results,
   each the title and address of a result container of the page, and they
   can be matched to distinct containers from left to right: same relative
   order, none twice.  A page of at most 5 containers loses none of its
   results; a failed search returns the empty list. *)
C13_From(r, div) == div.a /\ r.title = div.title /\ r.href = div.href
RECURSIVE C13_InOrder(_, _)
C13_InOrder(rs, divs) ==
    IF rs = <<>> THEN TRUE
    ELSE IF divs = <<>> THEN FALSE
    ELSE IF C13_From(Head(rs), Head(divs)) THEN C13_InOrder(Tail(rs), Tail(divs))
    ELSE C13_InOrder(rs, Tail(divs))
C13_AtMostFiveInOrder ==
    (op = "query") =>
        /\ Len(results) <= 5
        /\ C13_InOrder(results, doc)
        /\ (pc # "pq_search" /\ Len(doc) <= 5) =>
                \A i \in 1..Len(doc) : doc[i].a => \E j \in 1..Len(results) : C13_From(results[j], doc[i])

(* six containers with a result each: the first five are returned *)
C13_Witness ==
    /\ op = "query" /\ pc = "pq_fetch"
    /\ Len(doc) = 6 /\ \A i \in 1..6 : doc[i].a
    /\ Len(results) = 5
    /\ \A i \in 1..5 : results[i].href = doc[i].href

(* C14: within one stream_ollama call, whenever the main thread writes the
   response header, a character of the answer, the "stopped by user" notice
   or the error notice, the stop flag is set and the call's spinner thread
   has ended (the join has returned); so in what the call has written no
   spinner write comes after the first of those writes. *)
C14_Main == {"header", "char", "stopped", "ollama_error"}
C14_FirstMain(o) ==
    IF \E i \in 1..Len(o) : o[i].k \in C14_Main
    THEN CHOOSE i \in 1..Len(o) : o[i].k \in C14_Main /\ \A j \in 1..(i - 1) : o[j].k \notin C14_Main
    ELSE Len(o) + 1
C14_JoinedBeforeWrite ==
    /\ [][ Count(out', C14_Main) > Count(out, C14_Main) =>
                (stop_event /\ sp = "dead" /\ sp' = "dead") ]_vars
    /\ [](\A i \in 1..Len(out) : out[i].k = "spin" => i < C14_FirstMain(out))

(* the spinner wrote, then the answer "hi" was written after the join *)
C14_Witness ==
    /\ op = "chat" /\ pc = "ready" /\ sp = "dead"
    /\ Kinds(out) = <<"thinking", "spin", "blank", "blank", "header", "char", "char">>

(* C15: at most one spinner thread is alive at any time, and whenever
   stream_ollama has returned, on any path, the stop flag of that call is
   set and its spinner thread has ended: none is left running for the next
   query. *)
C15_Alive == leaked + Orphans(sp)
C15_SpinnerEndsWithCall ==
    /\ C15_Alive <= 1
    /\ (op \in {"chat", "query"} /\ pc = "ready" /\ so_calls = 1) =>
            /\ stop_event
            /\ sp = "dead"
            /\ leaked = 0

(* C16: no line of the chat body aborts stream_ollama: once the server has
   answered 2xx, the only exception that reaches the handler is a failure
   of the transfer itself; after a line has been handled (skipped, or its
   content taken up) the loop is still running and no error is pending. *)
C16_Answered == op = "chat" /\ requests = 1 /\ resp.status \in 200..299
C16_Transfer == {<<"ReadError">>}
C16_NoLineAborts ==
    /\ [][ (C16_Answered /\ pc = "so_iter" /\ pos <= Len(resp.body) /\ ~kbi'
                /\ so_exc' \notin C16_Transfer) =>
                    /\ pc' \in {"so_iter", "so_join", "so_chars"}
                    /\ so_exc' = <<>> ]_vars
    /\ [](C16_Answered => so_exc \in {<<>>} \cup C16_Transfer)

(* C17: a stream_ollama call that is over has ended in exactly one of three
   ways: silently, when the body was read to its end (with or without a
   done=true event); with the "stopped by user" notice and no error notice,
   when KeyboardInterrupt was raised; with one labeled error notice and no
   "stopped" notice, when an exception was caught, which is the case
   whenever the server was unreachable, refused the request or the transfer
   broke.  The notice is the last thing the call writes. *)
C17_Stopped == Count(out, {"stopped"})
C17_Errors == Count(out, {"ollama_error"})
C17_ConnectionLevel == {<<"ConnectError">>, <<"HTTPStatusError">>, <<"ReadError">>}
C18_IsError(line) == line.kind = "obj" /\ "error" \in line.has
C18_First(body) ==
    IF \E i \in 1..Len(body) : C18_IsError(body[i])
    THEN CHOOSE i \in 1..Len(body) : C18_IsError(body[i]) /\ \A j \in 1..(i - 1) : ~C18_IsError(body[j])
    ELSE 0
C18_ErrorEndsChat ==
    (op = "chat" /\ requests = 1 /\ resp.status \in 200..299
        /\ C18_First(resp.body) # 0 /\ pos > C18_First(resp.body)) =>
            /\ pc = "ready"
            /\ pos = C18_First(resp.body) + 1
            /\ Count(out, {"error", "ollama_error"}) = 1
            /\ CharsOf(out) = C2_Expected(SubSeq(resp.body, 1, C18_First(resp.body) - 1))

(* C19: every progress indicator written by pull_model is 30 segments wide,
   between 0 and 30 of them filled, whatever integers total > 0 and
   completed the event carries. *)
C19_Progress(o) == SelectItems(o, {"progress"})
C19_BarAlwaysThirty ==
    (op = "pull") =>
        \A i \in 1..Len(C19_Progress(out)) :
            LET p == C19_Progress(out)[i]
            IN  /\ p.n[1] + p.n[2] = 30
                /\ 0 <= p.n[1] /\ p.n[1] <= 30

(* C20: the main thread waits for the spinner only with the stop flag set;
   under fair scheduling a spinner whose flag is set ends, every wait for
   it ends, and a call whose stream has ended, failed or been interrupted
   returns. *)
C20_Joins == {"so_join", "so_exc_join", "so_kbi_join"}
C20_StreamOver ==
    \/ pc \in {"so_exc", "so_kbi"}
    \/ pc = "so_iter" /\ pos > Len(resp.body)
C20_ReturnsEventually ==
    /\ [](pc \in C20_Joins => stop_event)
    /\ ((stop_event /\ sp \in {"check", "print"}) ~> sp = "dead")
    /\ (pc \in C20_Joins ~> pc \notin C20_Joins)
    /\ (C20_StreamOver ~> pc = "ready")

(* the transfer broke while the spinner was running; the handler set the
   flag, waited for the spinner and returned *)
C20_Witness ==
    /\ op = "chat" /\ pc = "ready" /\ so_exc = <<"ReadError">>
    /\ stop_event /\ sp = "dead"
    /\ Kinds(out) = <<"thinking", "spin", "blank", "ollama_error">>

====
